---- MODULE Spec2Model ----
(***************************************************************************)
(* Model of plants/robots/robots_sys.py: the RobotsSystem plant, its       *)
(* construction, its one-step dynamics and its batched rollout against an  *)
(* external controller.                                                    *)
(*                                                                         *)
(* Numbers.  The tensors of the program hold floats; here every state,     *)
(* input and noise value is a fixed-point integer counting units of 1/Q    *)
(* (Q == HInv * B2Inv, so that h, b2 and h*b2 are whole), and every matrix *)
(* entry counts units of 1/(Q*Q).  A matrix-vector product is rounded to   *)
(* the nearest unit and the Euclidean norm is the integer square root.     *)
(* Tensors are kept as rows: a batched tensor of shape (n, 1, d) is a      *)
(* sequence of n rows of d numbers, and a log of shape (n, T, d) is a      *)
(* sequence of n sequences of T rows.  Indices are 1-based here, 0-based   *)
(* in the program; timesteps t keep the program's 0-based numbering.       *)
(***************************************************************************)
EXTENDS Integers, Sequences, FiniteSets

VARIABLES pc, args, plant, ctl, run, ret, kept

vars == <<pc, args, plant, ctl, run, ret, kept>>

\* ------------------------------------------------------------- bounds
\* Longest horizon T of a noise tensor handed to rollout.
MaxT == 2
\* Largest batch size of a noise tensor handed to rollout.
MaxBatch == 2

\* ------------------------------------------------- program constants
StateDim == 4
InDim == 2
\* h = 0.05 = 1 / HInv
HInv == 20
Mass == 1
\* default gain k = 1.0
KGain == 1
\* linear damping b = 1.0
DampB == 1
\* b2 = 0.1 = 1 / B2Inv
B2Inv == 10

\* One unit of value is 1/Q; one unit of a matrix entry is 1/QQ.
Q == HInv * B2Inv
QQ == Q * Q

\* ------------------------------------------------------------ numerics
\* TLC reads an entry of a function constructor by evaluating its body anew at
\* every read; Tup makes the constructor's value a tuple, evaluated once.
Tup(f) == f \o <<>>

Abs(n) == IF n < 0 THEN -n ELSE n

\* n / d rounded to the nearest integer (d > 0).
RoundDiv(n, d) == (2 * n + d) \div (2 * d)

RECURSIVE IsqrtIter(_, _, _)
IsqrtIter(n, lo, hi) ==
    IF lo >= hi THEN lo
    ELSE LET mid == (lo + hi + 1) \div 2
         IN  IF mid * mid <= n THEN IsqrtIter(n, mid, hi)
             ELSE IsqrtIter(n, lo, mid - 1)

\* floor of the square root of n, 0 <= n < 2^31 (46340 is the largest root)
Isqrt(n) == IsqrtIter(n, 0, IF n < 46340 THEN n ELSE 46340)

RECURSIVE SumSeq(_)
SumSeq(s) == IF s = <<>> THEN 0 ELSE Head(s) + SumSeq(Tail(s))

\* torch.norm(v, dim=-1) of one row
Norm(v) == Isqrt(SumSeq(Tup([i \in 1..Len(v) |-> v[i] * v[i]])))

Zeros(n) == Tup([i \in 1..n |-> 0])

VAdd(a, b) == Tup([i \in 1..Len(a) |-> a[i] + b[i]])
VSub(a, b) == Tup([i \in 1..Len(a) |-> a[i] - b[i]])

\* F.linear(v, M) of one row: v M^T, entry i is sum_j M[i][j] v[j]
Linear(v, M) ==
    Tup([i \in 1..Len(M) |->
        RoundDiv(SumSeq(Tup([j \in 1..Len(v) |-> M[i][j] * v[j]])), QQ)])

\* elementwise a + b of two batched tensors under torch's broadcasting of
\* the batch dimension: defined when the row counts agree or one of them is 1
CanBroadcast(n, m) == n = m \/ n = 1 \/ m = 1

BRow(a, i) == IF Len(a) = 1 THEN a[1] ELSE a[i]

BAdd(a, b) ==
    LET n == IF Len(a) >= Len(b) THEN Len(a) ELSE Len(b)
    IN  Tup([i \in 1..n |-> VAdd(BRow(a, i), BRow(b, i))])

\* ------------------------------------------------------------- tensors
None == [none |-> TRUE, shape |-> <<>>, data |-> <<>>]
Tensor(shape, data) == [none |-> FALSE, shape |-> shape, data |-> data]

\* tensor.reshape(1, -1)
Reshape1(ten) == Tensor(<<1, Len(ten.data)>>, ten.data)

\* the rows of a tensor viewed as (-1, 1, d): its flat data cut in rows of d
ViewRows(flat, d) ==
    Tup([i \in 1..(Len(flat) \div d) |-> Tup([j \in 1..d |-> flat[(i - 1) * d + j]])])

RECURSIVE Flatten(_)
Flatten(rows) == IF rows = <<>> THEN <<>> ELSE Head(rows) \o Flatten(Tail(rows))

\* tensor.repeat(n, 1, 1) of a 2-D tensor, flattened
RepeatFlat(ten, n) == Flatten(Tup([i \in 1..n |-> ten.data]))

\* --------------------------------------------------------- construction
\* Arguments the constructor is called with (k keeps its default).
XbarData == <<Q, -Q, 0, 0>>
XInitData == <<0, Q, 3 * Q, 4 * Q>>
UInitData == <<2 * Q, -Q>>

XbarFlat == Tensor(<<4>>, XbarData)

CtorArgs ==
    { \* defaults, linear and nonlinear
      [xbar |-> XbarFlat, x_init |-> None, u_init |-> None, linear_plant |-> TRUE],
      [xbar |-> XbarFlat, x_init |-> None, u_init |-> None, linear_plant |-> FALSE],
      \* every tensor given, none of them as a row
      [xbar |-> Tensor(<<2, 2>>, XbarData), x_init |-> Tensor(<<4, 1>>, XInitData),
       u_init |-> Tensor(<<1, 2>>, UInitData), linear_plant |-> FALSE],
      \* u_init with two rows of two
      [xbar |-> XbarFlat, x_init |-> None,
       u_init |-> Tensor(<<2, 2>>, UInitData \o <<0, 0>>), linear_plant |-> TRUE],
      \* xbar of length 3
      [xbar |-> Tensor(<<3>>, <<Q, -Q, 0>>), x_init |-> None, u_init |-> None,
       linear_plant |-> TRUE],
      \* x_init of length 5
      [xbar |-> XbarFlat, x_init |-> Tensor(<<5>>, XInitData \o <<0>>), u_init |-> None,
       linear_plant |-> FALSE],
      \* u_init of two components, flat and as a column
      [xbar |-> XbarFlat, x_init |-> None, u_init |-> Tensor(<<2>>, UInitData),
       linear_plant |-> TRUE],
      [xbar |-> XbarFlat, x_init |-> None, u_init |-> Tensor(<<2, 1>>, UInitData),
       linear_plant |-> FALSE],
      \* u_init of three components in a row
      [xbar |-> Tensor(<<1, 4>>, XbarData), x_init |-> None,
       u_init |-> Tensor(<<1, 3>>, UInitData \o <<0>>), linear_plant |-> TRUE] }

NoArgs == [xbar |-> None, x_init |-> None, u_init |-> None, linear_plant |-> TRUE]

\* self.B = [[0,0],[0,0],[1/m,0],[0,1/m]] * h
B ==
    LET e == QQ \div (Mass * HInv)
    IN  << <<0, 0>>, <<0, 0>>, <<e, 0>>, <<0, e>> >>

\* _A2 = [[0, I], [diag(-k/m), diag(-b/m)]], scaled by h
A2h ==
    LET one == QQ \div HInv
        kk  == (KGain * QQ) \div (Mass * HInv)
        bb  == (DampB * QQ) \div (Mass * HInv)
    IN  << <<0, 0, one, 0>>,
           <<0, 0, 0, one>>,
           <<-kk, 0, -bb, 0>>,
           <<0, -kk, 0, -bb>> >>

Eye4 == Tup([i \in 1..4 |-> Tup([j \in 1..4 |-> IF i = j THEN QQ ELSE 0])])

\* self.A_lin = _A1 + self.h * _A2
A_lin == Tup([i \in 1..4 |-> Tup([j \in 1..4 |-> Eye4[i][j] + A2h[i][j]])])

\* mask as a velocity-only mask of every (position, velocity) pair
mask_PerPair == << <<0, 1>>, <<0, 1>> >>

\* self.mask = [[0, 0], [1, 1]]
mask == << <<0, 0>>, <<1, 1>> >>

\* the buffers registered by lines 21-28
CtorXbar(a) == Reshape1(a.xbar)
CtorXInit(a) == IF a.x_init.none THEN CtorXbar(a) ELSE Reshape1(a.x_init)
\* line 27 calls u_init.reshape(1, -1) and drops its result: u_init stays as given
CtorUInit(a) ==
    IF a.u_init.none
    THEN Tensor(<<1, CtorXbar(a).shape[2] \div 2>>, Zeros(CtorXbar(a).shape[2] \div 2))
    ELSE a.u_init

\* the outcome of lines 32-33: "ok", or the exception raised
CtorCheck(a) ==
    IF ~(CtorXbar(a).shape[2] = StateDim /\ CtorXInit(a).shape[2] = StateDim)
    THEN "AssertionError"
    ELSE IF Len(CtorUInit(a).shape) < 2 THEN "IndexError"
    ELSE IF CtorUInit(a).shape[2] # InDim THEN "AssertionError"
    ELSE "ok"

\* what the last call gave its caller: a value, or an exception
NoRet == [status |-> "none", err |-> "none", x_log |-> <<>>, u_log |-> <<>>]

Raised(e) == [status |-> "raised", err |-> e, x_log |-> <<>>, u_log |-> <<>>]

NoPlant ==
    [linear_plant |-> TRUE, xbar |-> None, x_init |-> None, u_init |-> None,
     b2inv |-> 0, A_lin |-> <<>>, B |-> <<>>, mask |-> <<>>]

\* the object __init__ leaves; b2inv = 0 stands for b2 = None
NewPlant(a) ==
    [linear_plant |-> a.linear_plant,
     xbar |-> CtorXbar(a), x_init |-> CtorXInit(a), u_init |-> CtorUInit(a),
     b2inv |-> IF a.linear_plant THEN 0 ELSE B2Inv,
     A_lin |-> A_lin, B |-> B, mask |-> mask]

\* RobotsSystem.__init__
Construct(a) ==
    /\ pc = "new"
    /\ args' = a
    /\ IF CtorCheck(a) = "ok"
       THEN /\ pc' = "idle"
            /\ plant' = NewPlant(a)
            /\ ret' = NoRet
       ELSE /\ pc' = "ctor_failed"
            /\ plant' = NoPlant
            /\ ret' = Raised(CtorCheck(a))
    /\ UNCHANGED <<ctl, run, kept>>

\* ------------------------------------------------------------- dynamics
\* torch.kron(v, ones(2, 1)) of a column v: every entry twice, in order
KronOnes2(v) == Tup([i \in 1..(2 * Len(v)) |-> v[(i + 1) \div 2]])

\* RobotsSystem.A_nonlin for one batch element x (a row of 4)
A_nonlinRow(p, x) ==
    LET pairs  == ViewRows(x, 2)
        masked == Tup([r \in 1..2 |-> Tup([c \in 1..2 |-> pairs[r][c] * p.mask[r][c]])])
        norms  == Tup([r \in 1..2 |-> Norm(masked[r])])
        col    == KronOnes2(norms)
        \* h * (-b2 / mass) * diag_embed(col), in units of 1/QQ
        hA3    == Tup([i \in 1..4 |-> Tup([j \in 1..4 |->
                     IF i = j THEN -((col[i] * Q) \div (p.b2inv * Mass * HInv))
                     ELSE 0])])
    IN  Tup([i \in 1..4 |-> Tup([j \in 1..4 |-> p.A_lin[i][j] + hA3[i][j]])])

\* A_nonlin with the first batch element's matrix used for the whole batch
A_nonlin_Shared(p, xs) == Tup([n \in 1..Len(xs) |-> A_nonlinRow(p, xs[1])])

\* RobotsSystem.A_nonlin: one matrix per batch element
A_nonlin(p, xs) == Tup([n \in 1..Len(xs) |-> A_nonlinRow(p, xs[n])])

\* the matrices a step uses: the shared A_lin, or one per batch element
StepMatrices(p, xs) ==
    IF p.linear_plant THEN <<p.A_lin>> ELSE A_nonlin(p, ViewRows(Flatten(xs), StateDim))

\* whether noiseless_forward(x, u) + w.view(-1, 1, state_dim) is defined:
\* the view of w needs a multiple of state_dim numbers, each sum needs
\* batch dimensions that broadcast
ForwardOk(xs, us, w) ==
    LET nx == Len(ViewRows(Flatten(xs), StateDim))
        nu == Len(ViewRows(Flatten(us), InDim))
        nf == IF nx >= nu THEN nx ELSE nu
    IN  /\ CanBroadcast(nx, nu)
        /\ Len(Flatten(w)) % StateDim = 0
        /\ CanBroadcast(nf, Len(Flatten(w)) \div StateDim)

\* noiseless_forward without the re-centring on xbar: f = A x + B u
noiseless_forward_NoOffset(p, t, xs, us) ==
    LET x    == ViewRows(Flatten(xs), StateDim)
        u    == ViewRows(Flatten(us), InDim)
        A    == StepMatrices(p, x)
        fx   == Tup([n \in 1..Len(x) |->
                   Linear(x[n], IF p.linear_plant THEN A[1] ELSE A[n])])
        fu   == Tup([n \in 1..Len(u) |-> Linear(u[n], p.B)])
    IN  BAdd(fx, fu)

\* RobotsSystem.noiseless_forward
noiseless_forward(p, t, xs, us) ==
    LET x    == ViewRows(Flatten(xs), StateDim)
        u    == ViewRows(Flatten(us), InDim)
        xbar == p.xbar.data
        A    == StepMatrices(p, x)
        fx   == Tup([n \in 1..Len(x) |->
                   Linear(VSub(x[n], xbar), IF p.linear_plant THEN A[1] ELSE A[n])])
        fu   == Tup([n \in 1..Len(u) |-> Linear(u[n], p.B)])
    IN  BAdd(BAdd(fx, fu), <<xbar>>)

\* RobotsSystem.forward
forward(p, t, xs, us, w) ==
    BAdd(noiseless_forward(p, t, xs, us), ViewRows(Flatten(w), StateDim))

\* ----------------------------------------------------------- controller
\* The controller is the caller's object: reset() and __call__(t, x).  Two
\* deterministic controllers that map every batch element on its own: "zero"
\* returns the zero input, "ramp" damps the velocity with a gain that grows
\* with the number of queries since its last reset (its internal state).
CtlKinds == {"zero", "ramp"}

CtlReset(c) == [c EXCEPT !.cstate = 0]

CtlRow(c, t, x) ==
    IF c.kind = "zero" THEN Zeros(InDim)
    ELSE << -((c.cstate + 1) * x[3]), -((c.cstate + 1) * x[4]) >>

CtlOut(c, t, xs) == Tup([n \in 1..Len(xs) |-> CtlRow(c, t, xs[n])])

CtlStep(c) == [c EXCEPT !.cstate = IF c.cstate <= MaxT THEN c.cstate + 1 ELSE c.cstate]

\* ---------------------------------------------------------------- noise
\* Noise sequences a batch element can be given: all zero, or an alternating kick.
ProfileNoise(prof, t) ==
    IF prof = 0 THEN Zeros(StateDim)
    ELSE IF t % 2 = 0 THEN <<0, 0, 3 * Q, 4 * Q>>
    ELSE <<Q, 0, -2 * Q, 0>>

\* a noise tensor of shape (b, T, state_dim): its first `quiet` rows are zero
\* noise, the others are kicked
MkData(b, T, quiet) ==
    [b |-> b, T |-> T, wdim |-> StateDim,
     w |-> Tup([i \in 1..b |->
             Tup([t \in 1..T |-> ProfileNoise(IF i <= quiet THEN 0 ELSE 1, t - 1)])])]

\* a noise tensor whose trailing dimension is not state_dim
MkBadData(b, T) ==
    [b |-> b, T |-> T, wdim |-> StateDim - 1,
     w |-> Tup([i \in 1..b |-> Tup([t \in 1..T |-> Zeros(StateDim - 1)])])]

\* the noise tensors rollout is called with, of shape (b, T, wdim)
NoiseTensors ==
    { MkData(b, T, quiet) : b \in 1..MaxBatch, T \in 0..MaxT, quiet \in 0..MaxBatch }
    \cup { MkBadData(1, MaxT) }

\* data[:, t:t+1, :]
Slice(data, t) == Tup([i \in 1..data.b |-> data.w[i][t + 1]])

\* ------------------------------------------------------------- rollout
\* One entry of the record of operations a rollout performs: a controller
\* reset, a plant step (forward) or a controller query, with what it was
\* given and what it produced; cs is the controller's state a query found.
Ev(op, t, x, u, w, A, out, cs) ==
    [op |-> op, t |-> t, x |-> x, u |-> u, w |-> w, A |-> A, out |-> out, cs |-> cs]

ResetEv == Ev("reset", -1, <<>>, <<>>, <<>>, <<>>, <<>>, -1)

NoData == [b |-> 0, T |-> 0, wdim |-> StateDim, w |-> <<>>]

\* the locals of the rollout call in progress; bound says whether x_log and
\* u_log have been assigned, dirty whether the call found the controller with
\* state left over from earlier use
NoRun ==
    [data |-> NoData, train |-> FALSE, t |-> 0, x |-> <<>>, u |-> <<>>,
     x_log |-> <<>>, u_log |-> <<>>, bound |-> FALSE, trace |-> <<>>, err |-> "none",
     dirty |-> FALSE]

\* a result an earlier rollout returned, which the caller still holds
NoKept ==
    [has |-> FALSE, data |-> NoData, train |-> FALSE, x_log |-> <<>>, u_log |-> <<>>,
     trace |-> <<>>]

\* lines 117-120 without the reset of the controller
RolloutInit_NoReset(data, train) ==
    /\ ctl' = ctl
    /\ run' = [data |-> data, train |-> train, t |-> 0,
               x |-> ViewRows(RepeatFlat(plant.x_init, data.b), StateDim),
               u |-> ViewRows(RepeatFlat(plant.u_init, data.b), InDim),
               x_log |-> <<>>, u_log |-> <<>>, bound |-> FALSE,
               trace |-> <<ResetEv>>, err |-> "none", dirty |-> ctl.cstate # 0]

\* lines 117-120: reset the controller, replicate x_init and u_init
RolloutInit(data, train) ==
    /\ ctl' = CtlReset(ctl)
    /\ run' = [data |-> data, train |-> train, t |-> 0,
               x |-> ViewRows(RepeatFlat(plant.x_init, data.b), StateDim),
               u |-> ViewRows(RepeatFlat(plant.u_init, data.b), InDim),
               x_log |-> <<>>, u_log |-> <<>>, bound |-> FALSE,
               trace |-> <<ResetEv>>, err |-> "none", dirty |-> ctl.cstate # 0]

\* RobotsSystem.rollout is entered
Call(data, train) ==
    /\ pc = "idle"
    /\ RolloutInit(data, train)
    /\ pc' = "loop"
    /\ ret' = NoRet
    /\ UNCHANGED <<args, plant, kept>>

\* x_log, u_log after iteration t has logged (x, u): lines 128-132
LogAppend(log, t, rows) ==
    IF t = 0 THEN Tup([n \in 1..Len(rows) |-> <<rows[n]>>])
    ELSE Tup([n \in 1..Len(log) |-> Append(log[n], rows[n])])

\* an iteration that queries the controller before it advances the plant
Iteration_QueryFirst(p, c, r) ==
    LET t  == r.t
        w  == Slice(r.data, t)
        u1 == CtlOut(c, t, r.x)
        x1 == forward(p, t, r.x, u1, w)
    IN  [x |-> x1, u |-> u1, log_x |-> x1, log_u |-> u1,
         fev |-> Ev("query", t, r.x, <<>>, <<>>, <<>>, u1, c.cstate),
         qev |-> Ev("forward", t, r.x, u1, w, StepMatrices(p, r.x), x1, -1)]

\* what one iteration computes (lines 125-126, 136-137): the plant is advanced
\* with the noise slice t and the current control, then the controller is
\* queried with (t, the new state); logged is what lines 128-132 append
Iteration(p, c, r) ==
    LET t  == r.t
        w  == Slice(r.data, t)
        x1 == forward(p, t, r.x, r.u, w)
        u1 == CtlOut(c, t, x1)
    IN  [x |-> x1, u |-> u1, log_x |-> x1, log_u |-> u1,
         fev |-> Ev("forward", t, r.x, r.u, w, StepMatrices(p, r.x), x1, -1),
         qev |-> Ev("query", t, x1, <<>>, <<>>, <<>>, u1, c.cstate)]

\* one pass through the loop body (lines 125-132, 136-143), given what the
\* iteration computes; raises says whether the controller's query raises
LoopBody(it, raises) ==
    IF ~ForwardOk(run.x, run.u, Slice(run.data, run.t))
    THEN /\ run' = [run EXCEPT !.err = "RuntimeError"]
         /\ ret' = Raised("RuntimeError")
         /\ pc' = "raised"
         /\ UNCHANGED <<args, plant, ctl, kept>>
    ELSE IF raises
    THEN /\ run' = [run EXCEPT !.x = it.x, !.err = "ControllerError",
                               !.trace = Append(@, it.fev)]
         /\ ret' = Raised("ControllerError")
         /\ pc' = "raised"
         /\ UNCHANGED <<args, plant, ctl, kept>>
    ELSE /\ ctl' = CtlStep(ctl)
         /\ run' = [run EXCEPT !.x = it.x, !.u = it.u, !.t = @ + 1,
                               !.x_log = LogAppend(@, run.t, it.log_x),
                               !.u_log = LogAppend(@, run.t, it.log_u),
                               !.bound = TRUE,
                               !.trace = Append(Append(@, it.fev), it.qev)]
         /\ UNCHANGED <<pc, args, plant, ret, kept>>

\* the loop under train=True (lines 124-132)
SimulateTrain ==
    /\ pc = "loop" /\ run.train /\ run.t < run.data.T
    /\ \E raises \in BOOLEAN : LoopBody(Iteration(plant, ctl, run), raises)

\* the train=False loop logging the control it was given, not the one returned
SimulateNoGrad_StaleLog ==
    /\ pc = "loop" /\ ~run.train /\ run.t < run.data.T
    /\ \E raises \in BOOLEAN :
          LoopBody([Iteration(plant, ctl, run) EXCEPT !.log_u = run.u], raises)

\* the loop under train=False, inside torch.no_grad() (lines 134-143)
SimulateNoGrad ==
    /\ pc = "loop" /\ ~run.train /\ run.t < run.data.T
    /\ \E raises \in BOOLEAN : LoopBody(Iteration(plant, ctl, run), raises)

\* lines 144-146 without the final reset of the controller
RolloutEnd_NoFinalReset ==
    /\ pc = "loop" /\ run.t >= run.data.T
    /\ ctl' = ctl
    /\ IF run.bound
       THEN /\ run' = run
            /\ ret' = [status |-> "ok", err |-> "none",
                       x_log |-> run.x_log, u_log |-> run.u_log]
            /\ pc' = "returned"
       ELSE /\ run' = [run EXCEPT !.err = "UnboundLocalError"]
            /\ ret' = Raised("UnboundLocalError")
            /\ pc' = "raised"
    /\ UNCHANGED <<args, plant, kept>>

\* lines 144-146 with the last state stored on the plant as its next start
RolloutEnd_StoresState ==
    /\ pc = "loop" /\ run.t >= run.data.T
    /\ ctl' = CtlReset(ctl)
    /\ plant' = [plant EXCEPT !.x_init = Tensor(<<1, StateDim>>, run.x[1])]
    /\ IF run.bound
       THEN /\ run' = [run EXCEPT !.trace = Append(@, ResetEv)]
            /\ ret' = [status |-> "ok", err |-> "none",
                       x_log |-> run.x_log, u_log |-> run.u_log]
            /\ pc' = "returned"
       ELSE /\ run' = [run EXCEPT !.trace = Append(@, ResetEv),
                                  !.err = "UnboundLocalError"]
            /\ ret' = Raised("UnboundLocalError")
            /\ pc' = "raised"
    /\ UNCHANGED <<args, kept>>

\* lines 144-146: the final reset, then the return of the logs; x_log is
\* unbound when the loop never ran
RolloutEnd ==
    /\ pc = "loop" /\ run.t >= run.data.T
    /\ ctl' = CtlReset(ctl)
    /\ IF run.bound
       THEN /\ run' = [run EXCEPT !.trace = Append(@, ResetEv)]
            /\ ret' = [status |-> "ok", err |-> "none",
                       x_log |-> run.x_log, u_log |-> run.u_log]
            /\ pc' = "returned"
       ELSE /\ run' = [run EXCEPT !.trace = Append(@, ResetEv),
                                  !.err = "UnboundLocalError"]
            /\ ret' = Raised("UnboundLocalError")
            /\ pc' = "raised"
    /\ UNCHANGED <<args, plant, kept>>

\* the caller takes the returned logs, and may hold on to those of a
\* train=True rollout for later comparison; the call's locals are gone
Return ==
    /\ pc = "returned"
    /\ \E keep \in BOOLEAN :
          kept' = IF keep /\ ~kept.has /\ run.train
                  THEN [has |-> TRUE, data |-> run.data, train |-> run.train,
                        x_log |-> ret.x_log, u_log |-> ret.u_log, trace |-> run.trace]
                  ELSE kept
    /\ pc' = "idle"
    /\ run' = NoRun
    /\ ret' = NoRet
    /\ UNCHANGED <<args, plant, ctl>>

\* the exception of a failed call reaches the caller; the call's locals are gone
Unwind ==
    /\ pc = "raised"
    /\ pc' = "idle"
    /\ run' = NoRun
    /\ ret' = NoRet
    /\ UNCHANGED <<args, plant, ctl, kept>>

Init ==
    /\ pc = "new"
    /\ args = NoArgs
    /\ plant = NoPlant
    /\ ctl \in { [kind |-> k, cstate |-> c] : k \in CtlKinds, c \in 0..1 }
    /\ run = NoRun
    /\ ret = NoRet
    /\ kept = NoKept

Next ==
    \/ \E a \in CtorArgs : Construct(a)
    \/ \E data \in NoiseTensors, train \in BOOLEAN : Call(data, train)
    \/ SimulateTrain
    \/ SimulateNoGrad
    \/ RolloutEnd
    \/ Return
    \/ Unwind

Spec == Init /\ [][Next]_vars

TypeOK == pc \in {"new", "ctor_failed", "idle", "loop", "returned", "raised"}

\* ---------------------------------------------------------------- claims
InCall == pc \in {"loop", "returned"}

ResetsAt(tr) == {i \in DOMAIN tr : tr[i].op = "reset"}

\* C1: a rollout over a horizon T >= 1 in which nothing raises resets the
\* controller exactly twice: first of all, before any plant step or query, and
\* last of all, after the last query, and never in between.
C1_ResetTwice ==
    /\ pc = "loop" => ResetsAt(run.trace) = {1}
    /\ pc = "returned" =>
          /\ run.data.T >= 1
          /\ ResetsAt(run.trace) = {1, Len(run.trace)}
          /\ Len(run.trace) > 2
          /\ run.trace[Len(run.trace) - 1].op = "query"
          /\ ctl.cstate = 0

C1_Witness ==
    pc = "returned" /\ run.data.T >= 2 /\ ctl.kind = "ramp" /\ kept.has

\* the batch as rollout starts it: b copies of a buffer, in rows of d
Replicated(ten, b, d) == ViewRows(Flatten(Tup([i \in 1..b |-> ten.data])), d)

\* C2: under either train flag, steps 0..T-1 run in increasing order; step t
\* first advances the plant with noise slice t and the state and control of
\* step t-1 (x_init and u_init at t = 0) and only then queries the controller
\* with (t, the new state); a returned rollout has made exactly T queries, and
\* logged state t and logged control t are what step t produced and got back.
C2_StepOrder ==
    InCall =>
      LET tr == run.trace
      IN  /\ Len(tr) = 1 + 2 * run.t + (IF pc = "returned" THEN 1 ELSE 0)
          /\ pc = "returned" => run.t = run.data.T
          /\ \A t \in 0..(run.t - 1) :
                LET f == tr[2 * t + 2]
                    q == tr[2 * t + 3]
                IN  /\ f.op = "forward" /\ f.t = t
                    /\ f.w = Slice(run.data, t)
                    /\ f.x = IF t = 0 THEN Replicated(plant.x_init, run.data.b, StateDim)
                                      ELSE tr[2 * t].out
                    /\ f.u = IF t = 0 THEN Replicated(plant.u_init, run.data.b, InDim)
                                      ELSE tr[2 * t + 1].out
                    /\ f.out = forward(plant, t, f.x, f.u, f.w)
                    /\ q.op = "query" /\ q.t = t
                    /\ q.x = f.out
                    /\ \A n \in 1..Len(run.x_log) :
                          /\ Len(run.x_log[n]) = run.t /\ Len(run.u_log[n]) = run.t
                          /\ run.x_log[n][t + 1] = f.out[n]
                          /\ run.u_log[n][t + 1] = q.out[n]

C2_Witness ==
    /\ pc = "returned" /\ ~run.train /\ kept.has
    /\ run.data.T >= 2 /\ run.data.b >= 2
    /\ ~plant.linear_plant /\ ctl.kind = "ramp"
    /\ plant.u_init.data = UInitData

\* C3 (as claimed): for every noise tensor of shape (b, T, 4), b >= 1, T >= 0,
\* and a controller that never raises, rollout runs to completion and returns
\* logs of exactly T entries per trajectory.  Stated for a plant whose u_init
\* is the single row of in_dim numbers __init__ documents.
C3_AlwaysCompletes ==
    (/\ pc \in {"raised", "returned"}
     /\ run.data.wdim = StateDim /\ run.data.b >= 1
     /\ plant.u_init.shape = <<1, InDim>>
     /\ run.err # "ControllerError")
    => /\ pc = "returned"
       /\ \A n \in 1..Len(ret.x_log) :
             Len(ret.x_log[n]) = run.data.T /\ Len(ret.u_log[n]) = run.data.T

ZeroNoise(data) ==
    /\ data.wdim = StateDim
    /\ \A i \in 1..data.b : \A t \in 1..data.T : data.w[i][t] = Zeros(StateDim)

\* C4: in linear and in nonlinear mode, if x_init = xbar, u_init = 0, the
\* controller returns the zero input and the noise is all zero, every logged
\* state of every trajectory is xbar.
C4_FixedPoint ==
    (/\ InCall
     /\ plant.x_init.data = plant.xbar.data
     /\ plant.u_init.data = Zeros(Len(plant.u_init.data))
     /\ ctl.kind = "zero"
     /\ ZeroNoise(run.data))
    => \A n \in 1..Len(run.x_log) : \A t \in 1..Len(run.x_log[n]) :
          run.x_log[n][t] = plant.xbar.data

C4_Witness ==
    /\ pc = "returned" /\ ~plant.linear_plant
    /\ plant.x_init.data = plant.xbar.data
    /\ plant.u_init.data = Zeros(InDim)
    /\ ctl.kind = "zero" /\ ZeroNoise(run.data)
    /\ run.data.T >= 2 /\ run.data.b >= 2
    /\ Len(run.x_log) = run.data.b /\ Len(run.x_log[1]) = run.data.T

\* C5: with a controller that maps each batch element on its own, what a
\* rollout logs for a batch element depends on that element's noise sequence
\* alone: two returned rollouts (a batch and a single element, or two batches
\* that differ in the other elements' noise) log the same states and controls
\* for elements with the same noise sequence.
C5_BatchIndependent ==
    (/\ pc = "returned" /\ kept.has
     /\ Len(ret.x_log) = run.data.b /\ Len(kept.x_log) = kept.data.b)
    => \A i \in 1..run.data.b : \A j \in 1..kept.data.b :
          run.data.w[i] = kept.data.w[j]
          => /\ ret.x_log[i] = kept.x_log[j]
             /\ ret.u_log[i] = kept.u_log[j]

C5_Witness ==
    /\ pc = "returned" /\ kept.has
    /\ ~plant.linear_plant /\ ctl.kind = "ramp"
    /\ kept.data.b = 1 /\ run.data.b = 2 /\ run.data.T >= 2
    /\ Len(ret.x_log) = 2 /\ Len(kept.x_log) = 1
    /\ run.data.w[2] = kept.data.w[1]
    /\ run.data.w[1] # kept.data.w[1]
    /\ ret.x_log[2] = kept.x_log[1]
    /\ ret.x_log[1] # kept.x_log[1]

\* C6: rollouts leave the plant as __init__ built it (xbar, x_init, u_init,
\* A_lin, B), so a rollout over the same noise tensor with the same
\* deterministic controller returns the logs an earlier one returned, whatever
\* ran in between.
C6_NoPlantState ==
    /\ pc \in {"idle", "loop", "returned", "raised"} => plant = NewPlant(args)
    /\ (pc = "returned" /\ kept.has /\ kept.data = run.data)
       => ret.x_log = kept.x_log /\ ret.u_log = kept.u_log

C6_Witness ==
    /\ pc = "returned" /\ kept.has /\ kept.data = run.data /\ run.train
    /\ run.data.T >= 2 /\ ctl.kind = "ramp"
    /\ plant.x_init.data = XInitData
    /\ ret.x_log = kept.x_log /\ ret.x_log # <<>>

\* C7: rollout(train=False) performs the same sequence of resets, plant steps
\* and controller queries, and returns the same logs, as rollout(train=True)
\* on the same plant, controller and noise tensor.
C7_TrainSame ==
    (pc = "returned" /\ ~run.train /\ kept.has /\ kept.train /\ kept.data = run.data)
    => /\ run.trace = kept.trace
       /\ ret.x_log = kept.x_log
       /\ ret.u_log = kept.u_log

C7_Witness ==
    /\ pc = "returned" /\ ~run.train /\ kept.has /\ kept.train
    /\ kept.data = run.data /\ run.data.T >= 2 /\ run.data.b >= 2
    /\ ctl.kind = "ramp" /\ ~plant.linear_plant
    /\ run.trace = kept.trace /\ Len(run.trace) = 2 * run.data.T + 2

Given(ten) == ~ten.none

\* C8 (as claimed): construction succeeds exactly when xbar (and x_init when
\* given) has 4 components and u_init (when given) has 2 components, whatever
\* the shapes they are given in.
C8_CtorExactly ==
    pc # "new" =>
      ((pc # "ctor_failed") <=>
         (/\ Len(args.xbar.data) = StateDim
          /\ Given(args.x_init) => Len(args.x_init.data) = StateDim
          /\ Given(args.u_init) => Len(args.u_init.data) = InDim))

ForwardEvents == {i \in DOMAIN run.trace : run.trace[i].op = "forward"}

\* h * (b2 / m) * speed, in units of 1/QQ, for a speed in units of 1/Q
Friction(speed) == (speed * Q) \div (B2Inv * Mass * HInv)

DiagMinus(d) ==
    Tup([i \in 1..4 |-> Tup([j \in 1..4 |->
        A_lin[i][j] - (IF i = j THEN Friction(d[i]) ELSE 0)])])

\* C9 (as claimed): the nonlinear step matrix is A_lin + h * (-(b2/m)) * diag(s)
\* with one speed scalar per axis, the norm of the velocity of that axis's
\* (position, velocity) pair, placed on the axis's position row and on its
\* velocity row.  Both ways of pairing the state are allowed: pairs (x1, x2),
\* (x3, x4) as section 4.3 reads the view, or pairs (x1, x3), (x2, x4) as the
\* layout of A_lin has them.
C9_PerAxisSpeed ==
    (~plant.linear_plant /\ pc \in {"loop", "returned", "raised"}) =>
      \A i \in ForwardEvents :
        LET ev == run.trace[i]
        IN  \A n \in 1..Len(ev.x) :
              LET x == ev.x[n]
              IN  \/ ev.A[n] = DiagMinus(<<Abs(x[2]), Abs(x[2]), Abs(x[4]), Abs(x[4])>>)
                  \/ ev.A[n] = DiagMinus(<<Abs(x[3]), Abs(x[4]), Abs(x[3]), Abs(x[4])>>)

\* C9 (amended): the nonlinear step matrix is recomputed at every step from the
\* state entering that step as A_lin + h * (-(b2/m)) * diag(0, 0, v, v), where
\* v is the Euclidean norm of the whole velocity (x3, x4): the position rows
\* get no correction and both velocity rows get the same speed.
C9_SpeedOnVelocityRows ==
    (~plant.linear_plant /\ pc \in {"loop", "returned", "raised"}) =>
      \A i \in ForwardEvents :
        LET ev == run.trace[i]
        IN  /\ Len(ev.A) = Len(ev.x)
            /\ \A n \in 1..Len(ev.x) :
                  LET x == ev.x[n]
                      v == Isqrt(x[3] * x[3] + x[4] * x[4])
                  IN  ev.A[n] = DiagMinus(<<0, 0, v, v>>)

C9_Witness ==
    /\ pc = "returned" /\ ~plant.linear_plant /\ run.data.T >= 2 /\ run.data.b >= 2
    /\ \E i \in ForwardEvents :
          LET ev == run.trace[i]
          IN  /\ ev.t >= 1
              /\ ev.x[1][3] # 0 /\ ev.x[1][4] # 0
              /\ ev.A[1] # ev.A[2]
              /\ ev.A[1] # A_lin

\* C10: in any sequence of rollout calls on one controller, failed calls
\* included, the first controller query of every call finds the controller in
\* its reset state, and a call that fails hands no state or control log to its
\* caller.
C10_NoLeak ==
    /\ \A i \in DOMAIN run.trace :
          (run.trace[i].op = "query" /\ run.trace[i].t = 0) => run.trace[i].cs = 0
    /\ pc = "raised" =>
          ret.status = "raised" /\ ret.x_log = <<>> /\ ret.u_log = <<>>
    /\ ret.status = "ok" => pc = "returned"

C10_Witness ==
    /\ pc = "raised" /\ run.err = "ControllerError" /\ run.bound
    /\ kept.has /\ run.dirty /\ ctl.cstate >= 1
    /\ run.trace[3].op = "query" /\ run.trace[3].cs = 0
    /\ ret.x_log = <<>>
====
